---------------------------- MODULE Spec2Model ----------------------------
(***************************************************************************)
(* A model of WetFishBot's fishing loop (src/splash.py): the main loop,    *)
(* the lure cooldown, the cast, the template search for the bobber, the    *)
(* audio wait for the bite, and the ESC listener that runs beside them.    *)
(*                                                                         *)
(* Units: time in whole seconds; audio peaks in hundredths (0.06 -> 6);    *)
(* correlation values in hundredths (0.6 -> 60).                           *)
(***************************************************************************)
EXTENDS Integers, Sequences, FiniteSets

VARIABLES
    esc_pressed,      \* splash.py:27   the cancellation flag
    last_lure_time,   \* splash.py:42   None or the clock reading of the last lure
    bob_found,        \* splash.py:103  global set by find_bob
    reeled,           \* splash.py:179  global set by reel_in
    seconds_timer,    \* splash.py:181  window counter of reel_in
    wait_timer,       \* splash.py:50   GAME_TIMERS entry chosen at startup
    input_device,     \* splash.py:53   the audio device selection
    BOBBER_REGION,    \* splash.py:49   the search region (left, top, width, height)
    BOBBER_TEMPLATES_CV, \* splash.py:48  the number of preloaded templates
    pc,               \* position of the main thread
    clock,            \* what time.time() returns now
    \* the template loop of find_bob, stepped one template at a time
    corr,             \* per template: did matchTemplate return, and its max_val
    tmpl_i,           \* templates processed so far
    best_val,         \* splash.py:124
    best_match,       \* splash.py:123  0 for None, else the template's index
    \* history of the run (observations, never read by the program)
    lureTimes,        \* clock readings of the lure gestures issued so far
    lure_check,       \* this cycle's apply_lure call
    search,           \* this cycle's search result
    calls,            \* mic.record calls made in this cycle
    firstBite,        \* the first window of this cycle whose peak exceeded the threshold
    outcome,          \* how this cycle's reel_in ended
    reels,            \* right-click gestures issued in this cycle, failed ones too
    waits,            \* reel_in calls made in this cycle
    casts,            \* cast key presses issued in this cycle
    searches,         \* screen captures attempted in this cycle
    matched,          \* templates matched against the capture in this cycle
    moves,            \* cursor moves issued in this cycle
    failed,           \* the gesture of this cycle whose input injection raised
    last_key,         \* the key of the listener's last on_press call
    gesturesAfterEsc, \* gestures issued while esc_pressed was set (saturating)
    acqAfterEsc,      \* mic.record calls made while esc_pressed was set (saturating)
    observed          \* a cancellation check has read esc_pressed as set

vars == << esc_pressed, last_lure_time, bob_found, reeled, seconds_timer,
           wait_timer, input_device, pc, clock, corr, tmpl_i, best_val,
           best_match, lureTimes, lure_check, search, calls, firstBite,
           outcome, reels, waits, casts, searches, matched, moves, failed, last_key,
           BOBBER_REGION, BOBBER_TEMPLATES_CV, gesturesAfterEsc, acqAfterEsc,
           observed >>

configVars == << wait_timer, input_device, BOBBER_REGION, BOBBER_TEMPLATES_CV >>

matchVars == << corr, tmpl_i, best_val, best_match >>

-----------------------------------------------------------------------------
(* Program constants *)

None == -1

GAME_TIMERS == [era |-> 27, wotlk |-> 12]

AUDIO_THRESHOLD == 6

LURE_COOLDOWN == 10 * 60

BOBBER_MATCH_THRESHOLD == 60

ValidDevices == {"1", "2", "3"}

(* Bounds of the model *)

MaxTime == 1202

MaxTemplates == 3

SatGestures == 3

SatAcq == 2

(* Inputs *)

Deltas == {300, 599, 600, 601}

\* the supported selections differ only in the microphone they ask for
DeviceSelections == {"2", "5"}

Keys == {"esc", "a"}

\* what get_region_with_gui returned
Regions == {<< 100, 200, 400, 300 >>}

Peaks == {5, 6, 8}

AudioResults ==
    [ok : {TRUE}, peak : Peaks] \cup {[ok |-> FALSE, peak |-> 0]}

CorrVals == {59, 60, 61, 90}

TemplateResults ==
    [ok : {TRUE}, max_val : CorrVals] \cup {[ok |-> FALSE, max_val |-> 0]}

MatchInputs ==
    UNION {[1..n -> TemplateResults] : n \in 1..MaxTemplates}

Terminated == {"exited", "crashed"}

NoCheck == [called |-> FALSE, prev |-> None, cur |-> 0, applied |-> FALSE]

Sat(n, cap) == IF n < cap THEN n + 1 ELSE cap

-----------------------------------------------------------------------------
Init ==
    /\ esc_pressed = FALSE
    /\ last_lure_time = None
    /\ bob_found = FALSE
    /\ reeled = FALSE
    /\ seconds_timer = 0
    /\ wait_timer \in {GAME_TIMERS.era, GAME_TIMERS.wotlk}
    /\ input_device \in DeviceSelections
    /\ BOBBER_REGION \in Regions
    /\ BOBBER_TEMPLATES_CV \in 1..MaxTemplates
    /\ pc = "main_loop"
    /\ clock = 0
    /\ corr = << >>
    /\ tmpl_i = 0
    /\ best_val = 0
    /\ best_match = 0
    /\ lureTimes = << >>
    /\ lure_check = NoCheck
    /\ search = "None"
    /\ calls = 0
    /\ firstBite = 0
    /\ outcome = "None"
    /\ reels = 0
    /\ waits = 0
    /\ casts = 0
    /\ searches = 0
    /\ matched = 0
    /\ moves = 0
    /\ failed = "None"
    /\ last_key = "None"
    /\ gesturesAfterEsc = 0
    /\ acqAfterEsc = 0
    /\ observed = FALSE


-----------------------------------------------------------------------------
(* Pure parts of the program *)

\* splash.py:70  on_press sets the flag for ESC and for no other key
OnPressSets(key) == key = "esc"

\* splash.py:621-623, 107-109, 191-193  "if esc_pressed: exit()"
ExitIfCancelledNever(next) == next

ExitIfCancelledAtLoopTop(next) ==
    IF esc_pressed /\ next = "apply_lure" THEN "exited" ELSE next

ExitIfCancelled(next) == IF esc_pressed THEN "exited" ELSE next

\* splash.py:587  the condition under which apply_lure presses the lure key
LureDueFirstOnly(last, current_time) == last = None

LureDueNoStrict(last, current_time) ==
    last = None \/ (current_time - last) >= LURE_COOLDOWN

LureDue(last, current_time) ==
    last = None \/ (current_time - last) > LURE_COOLDOWN

\* splash.py:202  the bite test on one window's peak
IsBiteAtThreshold(audio_peak) == audio_peak >= AUDIO_THRESHOLD

IsBiteAlways(audio_peak) == TRUE

IsBite(audio_peak) == audio_peak > AUDIO_THRESHOLD

\* splash.py:216  the timeout test, made after the bite test
TimedOutAtLimit(timer, limit) == timer >= limit

TimedOut(timer, limit) == timer > limit

\* splash.py:201-218  what one recorded window decides: the bite test comes
\* first and breaks, the timeout test is only reached without a bite
WindowOutcomeTimeoutFirst(audio_peak, timer, limit) ==
    IF TimedOut(timer, limit) THEN "Timeout"
    ELSE IF IsBite(audio_peak) THEN "Bite"
    ELSE "None"

WindowOutcome(audio_peak, timer, limit) ==
    IF IsBite(audio_peak) THEN "Bite"
    ELSE IF TimedOut(timer, limit) THEN "Timeout"
    ELSE "None"

\* splash.py:133  does template i with this max_val replace the best match
BeatsLastWins(max_val, best) ==
    max_val > BOBBER_MATCH_THRESHOLD /\ max_val >= best

Beats(max_val, best) ==
    max_val > BOBBER_MATCH_THRESHOLD /\ max_val > best

\* splash.py:127-138  one iteration of the template loop; a matchTemplate
\* error skips the template
MatchOne(st, r, i) ==
    IF r.ok /\ Beats(r.max_val, st.best_val)
    THEN [best_val |-> r.max_val, best_match |-> i]
    ELSE st

RECURSIVE MatchLoop(_, _, _)
MatchLoop(rs, i, st) ==
    IF i > Len(rs) THEN st ELSE MatchLoop(rs, i + 1, MatchOne(st, rs[i], i))

\* splash.py:123-138  the whole loop, from best_match = None, best_val = 0
BestMatch(rs) == MatchLoop(rs, 1, [best_val |-> 0, best_match |-> 0])

\* splash.py:185-186 and 632-634  reel_in returns when there is no microphone,
\* reeled is False and main_loop starts its next iteration
AfterNoDeviceBackoff == "backoff"

AfterNoDevice == "main_loop"

\* splash.py:103-104: find_bob starts from "not found" whatever the previous
\* cycle left
FoundAtEntryKept(found) == found

FoundAtEntry(found) == FALSE

\* splash.py:631-637  where main_loop goes when find_bob has returned
AfterFindBobAlwaysReel(found) == "reel_in"

AfterFindBob(found) == IF found THEN "reel_in" ELSE "backoff"

\* splash.py:632-634  where main_loop goes when reel_in has returned: with
\* reeled it continues, without it falls out of the if; both are the loop top
AfterReelInSearchAgain(r) == IF r THEN "main_loop" ELSE "find_bob"

AfterReelIn(r) == "main_loop"

\* splash.py:220-222  the except clause of reel_in breaks out of the loop
ErrorEndsWaitNot == FALSE

ErrorEndsWait == TRUE

\* splash.py:68-71  the flag after on_press(key)
OnPressAssignsTest(key, flag) == OnPressSets(key)

OnPress(key, flag) == IF OnPressSets(key) THEN TRUE ELSE flag

\* splash.py:587-597  last_lure_time after apply_lure: assigned inside the
\* if, after keyDown and keyUp have returned
NewLureStampBeforePress(last, current_time, due, returned) ==
    IF due THEN current_time ELSE last

NewLureStampOutsideIf(last, current_time, due, returned) ==
    IF returned THEN current_time ELSE last

NewLureStamp(last, current_time, due, returned) ==
    IF due /\ returned THEN current_time ELSE last

-----------------------------------------------------------------------------
(* Bookkeeping of the history variables *)

CountGesture ==
    gesturesAfterEsc' =
        IF esc_pressed THEN Sat(gesturesAfterEsc, SatGestures) ELSE gesturesAfterEsc

CountAcq ==
    acqAfterEsc' = IF esc_pressed THEN Sat(acqAfterEsc, SatAcq) ELSE acqAfterEsc

cycleVars == << search, calls, firstBite, outcome, reels, waits, casts,
               searches, matched, moves, failed >>

-----------------------------------------------------------------------------
(* The ESC listener thread and the passing of time *)

\* splash.py:60-74
Listener ==
    /\ pc \notin Terminated
    /\ \E key \in Keys : esc_pressed' = OnPress(key, esc_pressed)
    /\ UNCHANGED << last_lure_time, bob_found, reeled, seconds_timer, configVars,
                    last_key, pc, clock, matchVars, lureTimes, lure_check,
                    cycleVars, gesturesAfterEsc, acqAfterEsc, observed >>

\* the same, with the key kept in the history
ListenerKeyed ==
    /\ pc \notin Terminated
    /\ \E key \in Keys :
         /\ esc_pressed' = OnPress(key, esc_pressed)
         /\ last_key' = key
    /\ UNCHANGED << last_lure_time, bob_found, reeled, seconds_timer, configVars,
                    pc, clock, matchVars, lureTimes, lure_check,
                    cycleVars, gesturesAfterEsc, acqAfterEsc, observed >>

\* time passes while the main thread sleeps or blocks: time.time() of
\* splash.py:583 grows by some d of D
TickBy(D) ==
    /\ pc \notin Terminated
    /\ \E d \in D : clock + d <= MaxTime /\ clock' = clock + d
    /\ UNCHANGED << esc_pressed, last_lure_time, bob_found, reeled, seconds_timer,
                    configVars, last_key, pc, matchVars, lureTimes,
                    lure_check, cycleVars, gesturesAfterEsc, acqAfterEsc, observed >>

Tick == TickBy(Deltas)

\* time passing in steps that each make the lure due again
TickCooldown == TickBy({LURE_COOLDOWN + 1})

-----------------------------------------------------------------------------
(* The main thread *)

\* splash.py:619-623; an iteration that goes on opens a new cycle of the
\* history
MainLoopCheck ==
    /\ pc = "main_loop"
    /\ observed' = esc_pressed
    /\ pc' = ExitIfCancelled("apply_lure")
    /\ IF pc' = "exited"
       THEN UNCHANGED cycleVars
       ELSE /\ search' = "None"
            /\ calls' = 0
            /\ firstBite' = 0
            /\ outcome' = "None"
            /\ reels' = 0
            /\ waits' = 0
            /\ casts' = 0
            /\ searches' = 0
            /\ matched' = 0
            /\ moves' = 0
            /\ failed' = "None"
    /\ UNCHANGED << esc_pressed, last_lure_time, bob_found, reeled, seconds_timer,
                    configVars, last_key, clock, matchVars, lureTimes,
                    lure_check, gesturesAfterEsc, acqAfterEsc >>

\* splash.py:575-605, up to the timestamp update; a failed key press raises
\* and main_loop does not catch it
ApplyLure ==
    /\ pc = "apply_lure"
    /\ IF LureDue(last_lure_time, clock)
       THEN /\ CountGesture
            /\ \E ok \in BOOLEAN :
                 /\ last_lure_time' = NewLureStamp(last_lure_time, clock, TRUE, ok)
                 /\ IF ok
                    THEN /\ lureTimes' = Append(lureTimes, clock)
                         /\ lure_check' = [called |-> TRUE, prev |-> last_lure_time,
                                           cur |-> clock, applied |-> TRUE]
                         /\ pc' = "lure_wait"
                         /\ UNCHANGED failed
                    ELSE /\ pc' = "crashed"
                         /\ failed' = "lure"
                         /\ UNCHANGED << lureTimes, lure_check >>
       ELSE /\ last_lure_time' = NewLureStamp(last_lure_time, clock, FALSE, TRUE)
            /\ lure_check' = [called |-> TRUE, prev |-> last_lure_time,
                              cur |-> clock, applied |-> FALSE]
            /\ pc' = "cast_line"
            /\ UNCHANGED << lureTimes, gesturesAfterEsc, failed >>
    /\ UNCHANGED << esc_pressed, bob_found, reeled, seconds_timer, configVars,
                    last_key, clock, matchVars, search, calls, firstBite, outcome,
                    reels, waits, casts, searches, matched, moves, acqAfterEsc, observed >>

\* splash.py:599-601
LurePostWait ==
    /\ pc = "lure_wait"
    /\ pc' = "cast_line"
    /\ UNCHANGED << esc_pressed, last_lure_time, bob_found, reeled, seconds_timer,
                    configVars, last_key, clock, matchVars, lureTimes,
                    lure_check, cycleVars, gesturesAfterEsc, acqAfterEsc, observed >>

\* splash.py:81-92
CastLine ==
    /\ pc = "cast_line"
    /\ CountGesture
    /\ casts' = casts + 1
    /\ \E ok \in BOOLEAN :
         /\ pc' = IF ok THEN "find_bob" ELSE "crashed"
         /\ failed' = IF ok THEN failed ELSE "cast"
    /\ lure_check' = NoCheck
    /\ UNCHANGED << esc_pressed, last_lure_time, bob_found, reeled, seconds_timer,
                    configVars, last_key, clock, matchVars, lureTimes,
                    search, calls, firstBite, outcome, reels, waits, searches, matched,
                    moves, acqAfterEsc, observed >>

\* splash.py:103-109
FindBobEntry ==
    /\ pc = "find_bob"
    /\ bob_found' = FoundAtEntry(bob_found)
    /\ observed' = esc_pressed
    /\ pc' = ExitIfCancelled("find_capture")
    /\ UNCHANGED << esc_pressed, last_lure_time, reeled, seconds_timer, configVars,
                    last_key, clock, matchVars, lureTimes, lure_check,
                    cycleVars, gesturesAfterEsc, acqAfterEsc >>

\* splash.py:111-168 and the branch of main_loop at 631-637
FindBobSearch ==
    /\ pc = "find_capture"
    /\ searches' = searches + 1
    /\ \E captured \in BOOLEAN :
         IF ~captured
         THEN /\ search' = "CaptureError"
              /\ pc' = AfterFindBob(bob_found)
              /\ UNCHANGED << bob_found, gesturesAfterEsc, moves, failed, matched >>
         ELSE \E rs \in [1..BOBBER_TEMPLATES_CV -> TemplateResults] :
                /\ matched' = BOBBER_TEMPLATES_CV
                /\ IF BestMatch(rs).best_match = 0
                   THEN /\ search' = "NotFound"
                        /\ pc' = AfterFindBob(bob_found)
                        /\ UNCHANGED << bob_found, gesturesAfterEsc, moves, failed >>
                   ELSE /\ CountGesture
                        /\ moves' = moves + 1
                        /\ \E ok \in BOOLEAN :
                             IF ok
                             THEN /\ bob_found' = TRUE
                                  /\ search' = "Found"
                                  /\ pc' = AfterFindBob(TRUE)
                                  /\ UNCHANGED failed
                             ELSE /\ pc' = "crashed"
                                  /\ failed' = "move"
                                  /\ UNCHANGED << bob_found, search >>
    /\ UNCHANGED << esc_pressed, last_lure_time, reeled, seconds_timer, configVars,
                    last_key, clock, matchVars, lureTimes, lure_check,
                    calls, firstBite, outcome, reels, waits, casts, acqAfterEsc,
                    observed >>

\* splash.py:636-638
Backoff ==
    /\ pc = "backoff"
    /\ pc' = "main_loop"
    /\ UNCHANGED << esc_pressed, last_lure_time, bob_found, reeled, seconds_timer,
                    configVars, last_key, clock, matchVars, lureTimes,
                    lure_check, cycleVars, gesturesAfterEsc, acqAfterEsc, observed >>

\* splash.py:179-186 with get_audio_device, 229-264: an unsupported selection
\* exits the process, a device that cannot be opened gives None
ReelInOpen ==
    /\ pc = "reel_in"
    /\ reeled' = FALSE
    /\ seconds_timer' = 0
    /\ waits' = waits + 1
    /\ IF input_device \in ValidDevices
       THEN \E opened \in BOOLEAN :
              IF opened
              THEN pc' = "reel_check" /\ UNCHANGED outcome
              ELSE pc' = AfterNoDevice /\ outcome' = "NoDevice"
       ELSE pc' = "exited" /\ UNCHANGED outcome
    /\ UNCHANGED << esc_pressed, last_lure_time, bob_found, configVars, last_key,
                    clock, matchVars, lureTimes, lure_check,
                    search, calls, firstBite, reels, casts, searches, matched, moves,
                    failed, gesturesAfterEsc, acqAfterEsc, observed >>

\* splash.py:189-193
ReelCheck ==
    /\ pc = "reel_check"
    /\ observed' = esc_pressed
    /\ pc' = ExitIfCancelled("reel_record")
    /\ UNCHANGED << esc_pressed, last_lure_time, bob_found, reeled, seconds_timer,
                    configVars, last_key, clock, matchVars, lureTimes,
                    lure_check, cycleVars, gesturesAfterEsc, acqAfterEsc >>

\* splash.py:195-222: one window; the except clause also catches a failed
\* right-click
ReelRecord ==
    /\ pc = "reel_record"
    /\ calls' = calls + 1
    /\ CountAcq
    /\ \E r \in AudioResults :
         IF ~r.ok
         THEN /\ outcome' = "Error"
              /\ pc' = IF ErrorEndsWait THEN AfterReelIn(reeled) ELSE "reel_check"
              /\ UNCHANGED << seconds_timer, reeled, reels, firstBite,
                              gesturesAfterEsc, failed >>
         ELSE /\ seconds_timer' = seconds_timer + 1
              /\ firstBite' = IF firstBite = 0 /\ r.peak > AUDIO_THRESHOLD
                              THEN calls + 1 ELSE firstBite
              /\ IF WindowOutcome(r.peak, seconds_timer', wait_timer) = "Bite"
                 THEN /\ CountGesture
                      /\ outcome' = "Bite"
                      /\ reels' = reels + 1
                      /\ \E ok \in BOOLEAN :
                           /\ reeled' = IF ok THEN TRUE ELSE reeled
                           /\ failed' = IF ok THEN failed ELSE "reel"
                      /\ pc' = AfterReelIn(reeled')
                 ELSE /\ IF WindowOutcome(r.peak, seconds_timer', wait_timer) = "Timeout"
                         THEN outcome' = "Timeout" /\ pc' = AfterReelIn(reeled)
                         ELSE pc' = "reel_check" /\ UNCHANGED outcome
                      /\ UNCHANGED << reeled, reels, gesturesAfterEsc, failed >>
    /\ UNCHANGED << esc_pressed, last_lure_time, bob_found, configVars, last_key,
                    clock, matchVars, lureTimes, lure_check,
                    search, waits, casts, searches, matched, moves, observed >>

Controller ==
    \/ MainLoopCheck
    \/ ApplyLure
    \/ LurePostWait
    \/ CastLine
    \/ FindBobEntry
    \/ FindBobSearch
    \/ Backoff
    \/ ReelInOpen
    \/ ReelCheck
    \/ ReelRecord

Next == Controller \/ Listener \/ Tick

Spec == Init /\ [][Next]_vars

\* the same program with time passing a cooldown at a time, and every
\* blocking call of the main thread returning
NextFair == Controller \/ Listener \/ TickCooldown

FairSpec == Init /\ [][NextFair]_vars /\ WF_vars(Controller)

\* the same program again, with the listener's keys in the history
NextKeys == Controller \/ ListenerKeyed \/ TickCooldown

SpecKeys == Init /\ [][NextKeys]_vars

-----------------------------------------------------------------------------
(* The template loop of find_bob on its own, one template per step, for     *)
(* every sequence of per-template results                                   *)

InitMatch ==
    /\ esc_pressed = FALSE
    /\ last_lure_time = None
    /\ bob_found = FALSE
    /\ reeled = FALSE
    /\ seconds_timer = 0
    /\ wait_timer = GAME_TIMERS.era
    /\ input_device = "1"
    /\ BOBBER_REGION \in Regions
    /\ pc = "match_loop"
    /\ clock = 0
    /\ corr \in MatchInputs
    /\ BOBBER_TEMPLATES_CV = Len(corr)
    /\ tmpl_i = 0
    /\ best_val = 0
    /\ best_match = 0
    /\ lureTimes = << >>
    /\ lure_check = NoCheck
    /\ search = "None"
    /\ calls = 0
    /\ firstBite = 0
    /\ outcome = "None"
    /\ reels = 0
    /\ waits = 0
    /\ casts = 0
    /\ searches = 0
    /\ matched = 0
    /\ moves = 0
    /\ failed = "None"
    /\ last_key = "None"
    /\ gesturesAfterEsc = 0
    /\ acqAfterEsc = 0
    /\ observed = FALSE

\* splash.py:126-138
MatchTemplate ==
    /\ pc = "match_loop"
    /\ tmpl_i < Len(corr)
    /\ LET st == MatchOne([best_val |-> best_val, best_match |-> best_match],
                          corr[tmpl_i + 1], tmpl_i + 1)
       IN  /\ best_val' = st.best_val
           /\ best_match' = st.best_match
    /\ tmpl_i' = tmpl_i + 1
    /\ UNCHANGED << esc_pressed, last_lure_time, bob_found, reeled, seconds_timer,
                    configVars, last_key, pc, clock, corr, lureTimes,
                    lure_check, cycleVars, gesturesAfterEsc, acqAfterEsc, observed >>

\* splash.py:140-168  the loop is over: Found with the cursor moved, or not
MatchResult ==
    /\ pc = "match_loop"
    /\ tmpl_i = Len(corr)
    /\ bob_found' = (best_match # 0)
    /\ search' = IF best_match # 0 THEN "Found" ELSE "NotFound"
    /\ pc' = "match_done"
    /\ UNCHANGED << esc_pressed, last_lure_time, reeled, seconds_timer,
                    configVars, last_key,
                    clock, matchVars, lureTimes, lure_check,
                    calls, firstBite, outcome, reels, waits, casts, searches, matched,
                    moves, failed, gesturesAfterEsc,
                    acqAfterEsc, observed >>

NextMatch == MatchTemplate \/ MatchResult

SpecMatch == InitMatch /\ [][NextMatch]_vars

-----------------------------------------------------------------------------
(* Claims *)

CheckPoints == {"main_loop", "find_bob", "reel_check"}

\* C1 (as stated): once esc_pressed is set, no lure key, cast key, cursor move
\* or right-click is issued any more.
C1_NoGestureAfterEscSet == gesturesAfterEsc = 0

\* C1 (amended): once a cancellation check of the controller has read the flag
\* as set, no further gesture is issued; the controller has exited.
C1_NoGestureAfterEscObserved ==
    [][observed => (gesturesAfterEsc' = gesturesAfterEsc /\ pc = "exited"
                    /\ pc' = "exited")]_vars

C1_Witness == observed /\ pc = "exited" /\ gesturesAfterEsc = 2

\* C2: any two consecutive lure applications of a session are more than
\* LURE_COOLDOWN seconds apart.
C2_LureCooldown ==
    \A i \in 1..(Len(lureTimes) - 1) :
        lureTimes[i + 1] - lureTimes[i] > LURE_COOLDOWN

C2_Witness ==
    /\ Len(lureTimes) >= 2
    /\ lureTimes[2] - lureTimes[1] = LURE_COOLDOWN + 1
    /\ pc = "cast_line"
    /\ lure_check.called /\ ~lure_check.applied
    /\ lure_check.cur - lure_check.prev = LURE_COOLDOWN

\* C3: apply_lure presses the lure key, before the cast, exactly when there is
\* no previous lure timestamp or more than LURE_COOLDOWN seconds have passed
\* since it: 601 s reapplies, 599 s does not.
C3_LureIffDue ==
    lure_check.called =>
        /\ pc \in {"lure_wait", "cast_line"}
        /\ lure_check.applied <=>
               (lure_check.prev = None
                  \/ lure_check.cur - lure_check.prev > LURE_COOLDOWN)
        /\ (lure_check.prev # None /\ lure_check.cur - lure_check.prev = 601)
               => lure_check.applied
        /\ (lure_check.prev # None /\ lure_check.cur - lure_check.prev = 599)
               => ~lure_check.applied
        /\ lure_check.applied =>
               (last_lure_time = lure_check.cur
                  /\ lureTimes[Len(lureTimes)] = lure_check.cur)

C3_Witness ==
    /\ lure_check.called /\ ~lure_check.applied
    /\ lure_check.cur - lure_check.prev = 599
    /\ Len(lureTimes) = 2
    /\ lureTimes[2] - lureTimes[1] = 601

\* C4: the wait ends with Bite at the first window whose peak exceeds the
\* threshold, and that window is the last one acquired: k calls for window k.
C4_BiteAtFirstLoudWindow ==
    (firstBite # 0 \/ outcome = "Bite") =>
        /\ outcome = "Bite"
        /\ calls = firstBite
        /\ seconds_timer = firstBite
        /\ pc \notin {"reel_check", "reel_record"}

C4_Witness ==
    /\ wait_timer = 12
    /\ firstBite = 5
    /\ calls = 5
    /\ outcome = "Bite"
    /\ reeled

\* C5: without a bite and without an error the wait ends with Timeout exactly
\* when the window counter exceeds wait_timer: never while it is at most
\* wait_timer, and at the first window at which it is greater.
C5_TimeoutWhenCounterExceeds ==
    /\ pc \in {"reel_check", "reel_record"} => seconds_timer <= wait_timer
    /\ outcome = "Timeout" =>
           /\ seconds_timer = wait_timer + 1
           /\ calls = seconds_timer
           /\ firstBite = 0
           /\ ~reeled

C5_Witness ==
    /\ outcome = "Timeout"
    /\ seconds_timer = wait_timer + 1
    /\ wait_timer = 12
    /\ pc = "main_loop"

\* C6: a wait without a bite listens for at most wait_timer one-second
\* windows (27 for Era/SoD, 12 for WotLK).
C6_AtMostWaitTimerWindows == calls <= wait_timer

\* C7: the search selects the template of greatest correlation among those
\* strictly above the threshold, the first of them in store order on a tie,
\* and finds nothing when no template is strictly above it.
AboveThreshold ==
    {i \in 1..Len(corr) : corr[i].ok /\ corr[i].max_val > BOBBER_MATCH_THRESHOLD}

C7_BestMatchSelected ==
    pc = "match_done" =>
        IF AboveThreshold = {}
        THEN best_match = 0 /\ ~bob_found /\ search = "NotFound"
        ELSE /\ best_match \in AboveThreshold
             /\ bob_found /\ search = "Found"
             /\ best_val = corr[best_match].max_val
             /\ \A j \in AboveThreshold :
                    /\ corr[j].max_val <= corr[best_match].max_val
                    /\ corr[j].max_val = corr[best_match].max_val
                           => best_match <= j

C7_Witness ==
    /\ pc = "match_done"
    /\ Len(corr) = 3
    /\ corr[1].ok /\ corr[1].max_val = BOBBER_MATCH_THRESHOLD
    /\ corr[2].ok /\ corr[2].max_val = 90
    /\ corr[3].ok /\ corr[3].max_val = 90
    /\ best_match = 2

\* C8 (as stated): with the flag set on entry to Casting, Searching, Waiting
\* or Reeling the controller stops there and the state's gesture is not made.
\* Reeling is entered inside the step that acquired the loud window.
C8_CheckedAtEveryEntry ==
    [][esc_pressed =>
         /\ pc \in CheckPoints =>
                (pc' \in {pc, "exited"} /\ UNCHANGED gesturesAfterEsc)
         /\ reels' = reels]_vars

\* C8 (amended): the flag is checked on entry to Casting (top of main_loop),
\* on entry to Searching (find_bob) and before every audio window of Waiting;
\* set there, the controller exits, and neither gesture nor audio window
\* follows. Reeling has no check of its own.
C8_CheckedAtCastSearchWait ==
    [][(esc_pressed /\ pc \in CheckPoints) =>
         /\ pc' \in {pc, "exited"}
         /\ UNCHANGED << gesturesAfterEsc, acqAfterEsc, calls, reels,
                         lureTimes, last_lure_time >>]_vars

C8_Witness ==
    /\ pc = "exited"
    /\ observed
    /\ outcome = "None"
    /\ waits = 1
    /\ calls > 0
    /\ acqAfterEsc = 0

\* C9: once the flag is set the controller eventually terminates, from
\* whatever state it was in, provided its blocking calls return. (A gesture
\* call that raises ends the process as well.)
C9_EventuallyExits == esc_pressed ~> (pc \in Terminated)

C9_Witness == esc_pressed /\ pc = "exited" /\ outcome = "NoDevice"

\* C10: reel_in is entered exactly in the cycles whose search returned Found;
\* after NotFound the controller sleeps the backoff and goes to the top of the
\* loop for a new cast, with no audio window and no reel in between.
BeforeSearch == {"apply_lure", "lure_wait", "cast_line", "find_bob", "find_capture"}

C10_WaitIffFound ==
    /\ [](/\ waits > 0 => search = "Found"
          /\ search = "Found" => (pc = "reel_in" \/ waits = 1)
          /\ search \in {"NotFound", "CaptureError"} =>
                 /\ calls = 0 /\ reels = 0 /\ waits = 0
                 /\ pc \in {"backoff", "main_loop", "exited"}
          /\ pc \in BeforeSearch =>
                 (search = "None" /\ calls = 0 /\ reels = 0 /\ waits = 0))
    /\ [][/\ (search = "None" /\ search' \in {"NotFound", "CaptureError"})
               => pc' = "backoff"
          /\ pc = "backoff" => pc' \in {pc, "main_loop"}
          /\ (pc = "main_loop" /\ ~esc_pressed) => pc' \in {pc, "apply_lure"}
          /\ pc = "apply_lure" =>
                 pc' \in {pc, "lure_wait", "cast_line", "crashed"}
          /\ pc = "lure_wait" => pc' \in {pc, "cast_line"}]_vars

C10_Witness ==
    /\ search = "NotFound"
    /\ pc = "main_loop"
    /\ calls = 0 /\ reels = 0 /\ waits = 0
    /\ reeled

\* C11: the right-click is issued in a cycle exactly when a window of that
\* cycle's wait held a bite; a wait that ends in Timeout or Error issues none,
\* and the controller is back at the top of the loop, from where it goes on
\* to the lure check and the cast.
C11_ReelIffBite ==
    /\ [](/\ reels > 0 <=> outcome = "Bite"
          /\ reels > 0 <=> firstBite # 0
          /\ reels <= 1
          /\ reeled /\ outcome # "None" => reels = 1
          /\ outcome \in {"Timeout", "Error"} =>
                 /\ reels = 0 /\ ~reeled
                 /\ pc \in {"main_loop", "exited"})
    /\ [][(outcome \in {"Timeout", "Error"} /\ pc = "main_loop" /\ ~esc_pressed)
              => pc' \in {pc, "apply_lure"}]_vars

C11_Witness ==
    /\ outcome = "Bite"
    /\ reels = 1
    /\ reeled
    /\ firstBite = wait_timer + 1
    /\ pc = "main_loop"

\* C12: a gesture whose input injection fails ends the cycle with the failure
\* surfaced; the controller never goes on after it.
C12_GestureFailureIsFatal == failed # "None" => pc = "crashed"

\* C13: an audio acquisition error ends the wait like a timeout: no further
\* window is acquired in it, no right-click is issued, the process goes on
\* and the controller is at the top of the loop for a new cycle.
C13_AudioErrorEndsWait ==
    /\ [](outcome = "Error" =>
             /\ calls = seconds_timer + 1
             /\ reels = 0 /\ ~reeled /\ failed = "None"
             /\ pc \in {"main_loop", "exited"}
             /\ pc = "exited" => observed)
    /\ [][outcome = "Error" =>
             /\ calls' = calls \/ (outcome' = "None" /\ calls' = 0)
             /\ ~esc_pressed => pc' \in {pc, "apply_lure"}]_vars

C13_Witness ==
    /\ outcome = "Error"
    /\ calls = 3
    /\ seconds_timer = 2
    /\ pc = "main_loop"
    /\ bob_found

\* C14: when the screen capture fails the search result is NotFound:
\* bob_found is false whatever the previous cycle left, no template is matched,
\* no cursor move is issued, nothing crashes, no audio wait starts and the
\* controller goes through the backoff to the top of the loop and a new cast.
C14_CaptureFailureIsNotFound ==
    /\ [](search = "CaptureError" =>
             /\ ~bob_found
             /\ matched = 0 /\ moves = 0 /\ waits = 0 /\ reels = 0
             /\ failed = "None"
             /\ pc \in {"backoff", "main_loop", "exited"}
             /\ pc = "exited" => observed)
    /\ [][/\ (search' = "CaptureError" /\ search # "CaptureError") => pc' = "backoff"
          /\ (search = "CaptureError" /\ pc = "backoff") => pc' \in {pc, "main_loop"}
          /\ (search = "CaptureError" /\ pc = "main_loop" /\ ~esc_pressed)
                 => pc' \in {pc, "apply_lure"}]_vars

C14_Witness ==
    /\ search = "CaptureError"
    /\ pc = "backoff"
    /\ reeled
    /\ ~bob_found
    /\ Len(lureTimes) = 1

\* C15: the lure timestamp is written, and the post-application wait entered,
\* only when the lure key press has returned: a lure key press that raises
\* leaves last_lure_time at its previous value and no post-wait follows.
C15_StampOnlyAfterLureGesture ==
    /\ [](/\ last_lure_time =
                 IF lureTimes = << >> THEN None ELSE lureTimes[Len(lureTimes)]
          /\ failed = "lure" => pc = "crashed"
          /\ pc = "lure_wait" => (lureTimes # << >> /\ failed = "None"))
    /\ [][/\ (pc' = "lure_wait" /\ pc # "lure_wait") =>
                 /\ lureTimes' = Append(lureTimes, clock)
                 /\ last_lure_time' = clock
          /\ (failed' = "lure" /\ failed # "lure") =>
                 /\ last_lure_time' = last_lure_time
                 /\ pc' = "crashed"]_vars

C15_Witness ==
    /\ failed = "lure"
    /\ pc = "crashed"
    /\ Len(lureTimes) = 1
    /\ last_lure_time = lureTimes[1]
    /\ clock > last_lure_time + LURE_COOLDOWN

\* C16: a session whose audio-device selection is not a supported one ends
\* before the fishing loop starts: it issues no lure, cast, cursor-move or
\* reel gesture.
C16_InvalidDeviceNoGesture ==
    input_device \notin ValidDevices =>
        /\ lureTimes = << >>
        /\ casts = 0
        /\ moves = 0
        /\ reels = 0

\* C17: cycles never overlap: a cycle has at most one cast, one visual search,
\* one audio wait and one right-click, in that order, and every step of the
\* controller acquires at most one audio window.
C17_CyclesNeverOverlap ==
    /\ [](/\ casts <= 1 /\ searches <= 1 /\ waits <= 1 /\ reels <= 1
          /\ searches > 0 => casts = 1
          /\ waits > 0 => (searches = 1 /\ search = "Found")
          /\ calls > 0 => waits = 1
          /\ reels > 0 => calls > 0)
    /\ [][/\ searches > 0 => casts' \in {casts, 0}
          /\ waits > 0 => searches' \in {searches, 0}
          /\ reels > 0 => (calls' \in {calls, 0} /\ waits' \in {waits, 0})
          /\ calls' \in {calls, calls + 1, 0}]_vars

C17_Witness ==
    /\ casts = 1 /\ searches = 1 /\ waits = 1 /\ reels = 1
    /\ calls = 2
    /\ pc = "main_loop"
    /\ Len(lureTimes) = 2

\* the variables the main thread writes
controllerVars == << last_lure_time, bob_found, reeled, seconds_timer, configVars,
                     pc, lureTimes, lure_check, cycleVars, gesturesAfterEsc,
                     acqAfterEsc, observed >>

\* C18: the cancellation flag is monotonic and is all the listener shares with
\* the controller: it goes from false to true only in an on_press call for
\* ESC, a call for another key leaves it as it is, no step of the controller
\* writes it, no call of the listener writes anything the controller owns, and
\* once true it stays true.
C18_FlagMonotonicAndOnlyShared ==
    /\ [][esc_pressed => esc_pressed']_vars
    /\ [][esc_pressed' # esc_pressed =>
              /\ last_key' = "esc"
              /\ UNCHANGED controllerVars]_vars
    /\ [][last_key' # "esc" => esc_pressed' = esc_pressed]_vars
    /\ [][last_key' # last_key => UNCHANGED controllerVars]_vars
    /\ [][controllerVars' # controllerVars => esc_pressed' = esc_pressed]_vars

C18_Witness ==
    /\ esc_pressed
    /\ last_key = "a"
    /\ pc = "reel_record"
    /\ calls = 1

\* C19: last_lure_time changes only in the step of apply_lure that pressed the
\* lure key; the cast, the search, the wait, the right-click, the backoff and
\* a lure check that is not due leave it alone; no step changes the search
\* region, the timeout bound or the template set.
C19_LureStampFrame ==
    /\ [][last_lure_time' # last_lure_time =>
              /\ pc = "apply_lure"
              /\ pc' = "lure_wait"
              /\ lureTimes' = Append(lureTimes, clock)
              /\ last_lure_time' = clock]_vars
    /\ [][(pc # "apply_lure") => last_lure_time' = last_lure_time]_vars
    /\ [][(pc = "apply_lure" /\ ~LureDue(last_lure_time, clock))
              => last_lure_time' = last_lure_time]_vars
    /\ [][UNCHANGED << BOBBER_REGION, wait_timer, BOBBER_TEMPLATES_CV >>]_vars

C19_Witness ==
    /\ lure_check.called /\ ~lure_check.applied
    /\ last_lure_time = lure_check.prev
    /\ lure_check.cur - lure_check.prev = 300
    /\ reeled
    /\ pc = "cast_line"

\* C20: after the flag is set the controller issues at most two more gestures
\* and acquires at most one more audio window before it exits.
C20_BoundedWorkAfterEsc ==
    /\ gesturesAfterEsc <= 2
    /\ acqAfterEsc <= 1

C20_Witness ==
    /\ pc = "exited"
    /\ observed
    /\ acqAfterEsc = 1
    /\ gesturesAfterEsc = 1
    /\ outcome = "Bite"

\* C21: within one window the bite test comes before the timeout test: when
\* the window that takes the counter past wait_timer has a peak above the
\* threshold, the wait ends with Bite and the right-click, not with Timeout.
C21_BiteBeforeTimeout ==
    /\ []((/\ firstBite # 0
           /\ firstBite = calls
           /\ TimedOut(seconds_timer, wait_timer)) =>
              /\ outcome = "Bite"
              /\ reels = 1)
    /\ [][(/\ pc = "reel_record"
           /\ seconds_timer = wait_timer
           /\ seconds_timer' = seconds_timer + 1
           /\ firstBite' = calls') =>
              /\ outcome' = "Bite"
              /\ reels' = reels + 1]_vars

C21_Witness ==
    /\ outcome = "Bite"
    /\ TimedOut(seconds_timer, wait_timer)
    /\ firstBite = calls
    /\ reels = 1
    /\ reeled

\* C22: when the audio device cannot be opened the cycle acquires no window
\* and issues no right-click, and the controller goes straight to the top of
\* the loop, without the backoff, on to the next cast; it does not terminate
\* on that account.
C22_NoDeviceSkipsWait ==
    /\ [](outcome = "NoDevice" =>
             /\ calls = 0 /\ reels = 0 /\ ~reeled
             /\ search = "Found" /\ waits = 1
             /\ failed = "None"
             /\ pc \in {"main_loop", "exited"}
             /\ pc = "exited" => observed)
    /\ [][/\ (outcome' = "NoDevice" /\ outcome # "NoDevice") => pc' = "main_loop"
          /\ (outcome = "NoDevice" /\ pc = "main_loop" /\ ~esc_pressed)
                 => pc' \in {pc, "apply_lure"}]_vars

C22_Witness ==
    /\ outcome = "NoDevice"
    /\ pc = "main_loop"
    /\ bob_found
    /\ waits = 1 /\ calls = 0
    /\ Len(lureTimes) = 2
    /\ ~esc_pressed

=============================================================================
